---- MODULE Spec2Model ----
(***************************************************************************)
(* A model of the timeline composition of auto-video-editor,               *)
(* src/src/editor.py, Editor.edit: one call of edit() as a state machine   *)
(* whose actions are the stages of the function in program order.          *)
(*                                                                         *)
(* Time.  Every time value is an integer number of ticks of 0.05 s         *)
(* (0.1 s = 2, 0.5 s = 10, 3.0 s = 60).  Python computes on floats: a      *)
(* float keeps a fixed number of significant bits and every arithmetic     *)
(* result is rounded to the nearest representable value (ties to even).    *)
(* The model keeps that rounding with a mantissa of MantBits bits instead  *)
(* of 53: integers below 2^MantBits are exact, larger ones are rounded.    *)
(***************************************************************************)
EXTENDS Integers, Sequences, FiniteSets, TLC

(* ------------------------------ bounds -------------------------------- *)
MantBits == 7
MaxSegments == 2
MaxGraphics == 2
MaxCaptions == 1
MaxRequests == 3
MaxTextLen == 5

(* ------------------------- program constants -------------------------- *)
CrossfadeMargin == 2
MinCaptionDuration == 10
DefaultGraphicDuration == 60
TitleCardDuration == 60
DefaultMusicVolume == 10      \* music_volume: float = 0.1, in hundredths
MusicFadeDuration == 40       \* the 2.0 s envelope the tests expect
max_retries == 5              \* generator.py: max_retries = 5
DefaultWaitTime == 20         \* seconds, when a 503 carries no estimated_time

(* --------------------------- float arithmetic ------------------------- *)
Max(a, b) == IF a >= b THEN a ELSE b
Min(a, b) == IF a <= b THEN a ELSE b

RECURSIVE Pow2(_)
Pow2(n) == IF n <= 0 THEN 1 ELSE 2 * Pow2(n - 1)

RECURSIVE BitLen(_)
BitLen(n) == IF n <= 0 THEN 0 ELSE 1 + BitLen(n \div 2)

\* nearest value with at most MantBits significant bits, ties to even
RoundMagnitude(n) ==
    LET q  == Pow2(BitLen(n) - MantBits)
        lo == (n \div q) * q
        r  == n - lo
    IN  IF 2 * r < q THEN lo
        ELSE IF 2 * r > q THEN lo + q
        ELSE IF (lo \div q) % 2 = 0 THEN lo ELSE lo + q

\* float(x), and the rounding of every float result
FRound(x) == IF x < 0 THEN 0 - RoundMagnitude(0 - x) ELSE RoundMagnitude(x)

FAdd(a, b) == FRound(a + b)
FSub(a, b) == FRound(a - b)

(* ------------------------------ helpers ------------------------------- *)
\* dict.get(k, default)
Get(d, k, default) == IF k \in DOMAIN d THEN d[k] ELSE default

\* list.sort(key=...): stable; s is a sequence of <<key, item>> pairs
InsertStable(t, p) ==
    LET n == Cardinality({j \in 1..Len(t) : t[j][1] <= p[1]})
    IN  SubSeq(t, 1, n) \o <<p>> \o SubSeq(t, n + 1, Len(t))

RECURSIVE SortPairs(_)
SortPairs(s) ==
    IF s = <<>> THEN <<>>
    ELSE InsertStable(SortPairs(SubSeq(s, 1, Len(s) - 1)), s[Len(s)])

\* bisect.bisect_left(a, x) on the 1-based sequence a: lo, hi are 0-based
RECURSIVE BisectLoop(_, _, _, _)
BisectLoop(a, x, lo, hi) ==
    IF lo < hi
    THEN LET mid == (lo + hi) \div 2
         IN  IF a[mid + 1] < x THEN BisectLoop(a, x, mid + 1, hi)
                               ELSE BisectLoop(a, x, lo, mid)
    ELSE lo

BisectLeft(a, x) == BisectLoop(a, x, 0, Len(a))

SeqsUpTo(S, n) == UNION {[1..k -> S] : k \in 0..n}

(* ------------------------------- state -------------------------------- *)
VARIABLES
    pc,               \* position of the call in edit()
    analysis_data,    \* the plan dict passed by the caller (mutable, shared)
    plan_at_call,     \* history: the plan as it was when edit() was called
    graphic_paths,    \* plan index (0-based) -> state of the asset path
    video_duration,   \* video.duration
    crossfade,        \* requested crossfade
    intro_text,       \* "" stands for None / empty
    outro_text,
    segments,         \* the local list `segments`
    sorted_graphics,  \* <<timestamp, original index, request>> sorted by timestamp
    g_timestamps,
    textclip_ok,      \* whether TextClip(...) can be built in this run
    card_ok,          \* whether _create_title_card could build each card
    clips,            \* the render units built so far
    actual_crossfade,
    padding,
    result,           \* "running", "None", "output_path" or "exception"
    music,            \* path of the background music, "" stands for None
    music_volume,     \* gain in hundredths
    visual_filter,    \* "" stands for None
    video_audio,      \* whether video.audio is not None
    music_file,       \* what is found at the music path
    final,            \* the concatenated clip handed to write_videofile
    call,             \* 1 in the first call of edit(), 2 in a repeated one
    first,            \* history: what the first call built
    render_log,       \* history: the outcome of each call of the rendering backend
    generation,       \* Generator.generate: the locals of one call
    graphics_phase,   \* main: the futures and graphic_paths of the generation phase
    analysis          \* Analyzer.analyze: the response text and what is returned

vars == <<pc, analysis_data, plan_at_call, graphic_paths, video_duration, crossfade,
          intro_text, outro_text, segments, sorted_graphics, g_timestamps,
          textclip_ok, card_ok, clips, actual_crossfade, padding, result, music,
          music_volume, visual_filter, video_audio, music_file, final, call, first,
          render_log, generation, graphics_phase, analysis>>

\* the state of the other components of the pipeline, which edit() never touches
pipeline_vars == <<generation, graphics_phase, analysis>>

\* the state of Editor.edit
editor_vars ==
    <<pc, analysis_data, plan_at_call, graphic_paths, video_duration, crossfade,
      intro_text, outro_text, segments, sorted_graphics, g_timestamps,
      textclip_ok, card_ok, clips, actual_crossfade, padding, result, music,
      music_volume, visual_filter, video_audio, music_file, final, call, first,
      render_log>>

(* ------------------------------- inputs ------------------------------- *)
Seg(s, e) == [start |-> s, end |-> e]
Gfx(t, d) == [timestamp |-> t, duration |-> d, prompt |-> "p"]
Cap(s, e, txt) == [start |-> s, end |-> e, text |-> txt]

\* a dict without one of its keys
Without(d, k) == [x \in DOMAIN d \ {k} |-> d[x]]

Plan(segs, gfx, caps) == [segments |-> segs, graphics |-> gfx, captions |-> caps]

\* graphic_paths with every index of a list of n graphics pointing at a file
AllFiles(n) == [i \in 0..(n - 1) |-> "file"]

\* every graphic_paths over n graphics: an index may be absent, point at a
\* missing file, at an image, or at a file ImageClip cannot read
AssetStates == {"file", "nofile", "badimage"}
AssetMaps(n) == UNION {[P -> AssetStates] : P \in SUBSET (0..(n - 1))}

\* what os.path.exists and AudioFileClip find at the music path
NoMusicFile == [state |-> "nofile", duration |-> 0]
BadMusicFile == [state |-> "badaudio", duration |-> 0]
MusicFile(d) == [state |-> "file", duration |-> d]

\* a call with the default configuration: no music, no filter, a source with sound
Scenario(plan, paths, d, c, intro, outro) ==
    [plan |-> plan, paths |-> paths, duration |-> d, crossfade |-> c,
     intro |-> intro, outro |-> outro, music |-> "",
     music_volume |-> DefaultMusicVolume, visual_filter |-> "",
     video_audio |-> TRUE, music_file |-> NoMusicFile]

\* an audio track that is not there, and the music track as AudioFileClip loads it
NoTrack ==
    [source |-> 0, fit |-> "none", start |-> 0, duration |-> 0, gains |-> <<>>,
     fadein |-> 0, fadeout |-> 0]

\* final.audio: the tracks it is made of and the gains applied to each
NoAudio == [kind |-> "none", original_gains |-> <<>>, music |-> NoTrack]

\* `final` before the concatenation, and the record of a call that built nothing
NoFinal == [built |-> FALSE, duration |-> 0, filters |-> <<>>, audio |-> NoAudio]
NoGraph ==
    [clips |-> <<>>, padding |-> 0, actual_crossfade |-> 0, final |-> NoFinal,
     result |-> "running", textclip_ok |-> TRUE,
     card_ok |-> [intro |-> TRUE, outro |-> TRUE], segments |-> <<>>,
     plan |-> Plan(<<>>, <<>>, <<>>)]

\* keep-lists: unsorted, negative, out of range, degenerate, missing fields
ClipPool ==
    {Seg(0, 100), Seg(0 - 1, 20), Seg(0 - 2, 40), Seg(40, 40), Seg(60, 20),
     Seg(100, 400), Seg(300, 400),
     Without(Seg(40, 0), "end"), Without(Seg(0, 40), "start")}

ClipScenarios ==
    {Scenario(p, <<>>, d, 0, "", "") :
        p \in {Plan(s, <<>>, <<>>) : s \in SeqsUpTo(ClipPool, MaxSegments)}
              \cup {[graphics |-> <<>>, captions |-> <<>>], [captions |-> <<>>]},
        d \in {200, 840}}

\* segments that abut and segments that overlap each other
OverlaySegPool == {Seg(0, 100), Seg(100, 200), Seg(40, 120)}

\* graphics before, inside, across, around and after the segments; negative
\* timestamp, empty span, missing duration
GraphicPool ==
    {Gfx(80, 60), Gfx(0 - 20, 60), Gfx(80, 0), Gfx(20, 120), Gfx(240, 40),
     Without(Gfx(120, 0), "duration")}

OverlayScenarios ==
    {Scenario(Plan(s, g, <<>>), AllFiles(Len(g)), 200, 0, "", "") :
        s \in SeqsUpTo(OverlaySegPool, MaxSegments),
        g \in SeqsUpTo(GraphicPool, MaxGraphics)}

\* every state of the asset map, for graphics that overlap the segments
AssetScenarios ==
    UNION {{Scenario(Plan(s, g, c), m, 200, 0, "", "") : m \in AssetMaps(Len(g))} :
        s \in {<<Seg(0, 100), Seg(100, 200)>>, <<Seg(40, 120)>>},
        g \in SeqsUpTo({Gfx(80, 60), Without(Gfx(0, 60), "timestamp")}, MaxGraphics),
        c \in {<<>>, <<Cap(80, 160, "hi")>>}}

CaptionPool ==
    {Cap(80, 160, "hi"), Cap(90, 110, "hi"), Cap(90, 111, "hi"), Cap(80, 160, ""),
     Without(Cap(80, 0, "hi"), "end"), Without(Cap(0, 80, "hi"), "start")}

CaptionScenarios ==
    {Scenario(Plan(s, g, c), AllFiles(Len(g)), 200, 0, "", "") :
        s \in SeqsUpTo(OverlaySegPool, MaxSegments),
        g \in {<<>>, <<Gfx(80, 60)>>},
        c \in SeqsUpTo(CaptionPool, MaxCaptions)}

\* short and very short segments, with and without title cards
CrossfadeScenarios ==
    {Scenario(Plan(s, <<>>, <<>>), <<>>, 200, c, intro, outro) :
        s \in SeqsUpTo({Seg(0, 40), Seg(40, 80), Seg(0, 1), Seg(0, 100)}, MaxSegments),
        c \in {0, 1, 20, 100},
        intro \in {"", "Intro"},
        outro \in {"", "Outro"}}

\* times whose differences and sums are not representable: 136 - 1 and
\* 136 + 1 lie halfway between two floats of MantBits bits
RoundingScenarios ==
    {Scenario(Plan(s, g, <<>>), AllFiles(Len(g)), 200, 0, "", "") :
        s \in SeqsUpTo({Seg(0, 136), Seg(1, 136), Seg(40, 40)}, MaxSegments),
        g \in {<<>>, <<Gfx(1, 136)>>, <<Gfx(136, 1)>>}}

\* the configuration of the last steps: music of any length or none at the
\* path, a source with or without sound, known and unknown filter names
RenderScenarios ==
    {[Scenario(Plan(<<Seg(0, 100)>>, <<>>, <<>>), <<>>, 200, 0, intro, "")
        EXCEPT !.music = m, !.music_file = file, !.music_volume = volume,
               !.visual_filter = filter, !.video_audio = audio] :
        intro \in {"", "Intro"},
        m \in {"", "music.mp3"},
        file \in {NoMusicFile, BadMusicFile, MusicFile(40), MusicFile(100), MusicFile(400)},
        volume \in {DefaultMusicVolume, 50},
        filter \in {"", "black_white", "invert_colors", "painting", "rotate_90"},
        audio \in BOOLEAN}

\* the scenarios in which every sum and difference edit() takes is exact
ExactScenarios ==
    ClipScenarios \cup OverlayScenarios \cup AssetScenarios \cup CaptionScenarios
    \cup CrossfadeScenarios \cup RenderScenarios

\* plans for a repeated call: unsorted lists, equal starts, overlays, music
TwiceScenarios ==
    {[Scenario(Plan(s, o[1], o[2]), AllFiles(Len(o[1])), 200, x, intro, "")
        EXCEPT !.music = m, !.music_file = MusicFile(40)] :
        s \in SeqsUpTo({Seg(0, 40), Seg(0, 100), Seg(-1, 20), Seg(40, 40),
                        Without(Seg(40, 0), "start")}, MaxSegments),
        o \in {<<<<>>, <<>>>>,
                <<<<Gfx(80, 60), Gfx(20, 120)>>, <<Cap(80, 160, "hi")>>>>},
        x \in {0, 20},
        intro \in {"", "Intro"},
        m \in {"", "music.mp3"}}

Scenarios == ExactScenarios \cup RoundingScenarios

\* the other components at rest
IdleGeneration ==
    [pc |-> "idle", i |-> 0, posts |-> 0, sleeps |-> <<>>, responses |-> <<>>,
     result |-> "running"]
IdleGraphicsPhase ==
    [pc |-> "idle", graphics_reqs |-> <<>>, next |-> 0, futures |-> <<>>,
     graphic_paths |-> <<>>, seen |-> {}]
NoResult == [tag |-> "running", depth |-> 0, leaf |-> ""]
IdleAnalysis == [pc |-> "idle", result_text |-> <<>>, result |-> NoResult]

PipelineIdle ==
    /\ generation = IdleGeneration
    /\ graphics_phase = IdleGraphicsPhase
    /\ analysis = IdleAnalysis

InitFrom(scenarios) ==
    /\ pc = "load"
    /\ \E sc \in scenarios :
          /\ analysis_data = sc.plan
          /\ plan_at_call = sc.plan
          /\ graphic_paths = sc.paths
          /\ video_duration = sc.duration
          /\ crossfade = sc.crossfade
          /\ intro_text = sc.intro
          /\ outro_text = sc.outro
          /\ music = sc.music
          /\ music_volume = sc.music_volume
          /\ visual_filter = sc.visual_filter
          /\ video_audio = sc.video_audio
          /\ music_file = sc.music_file
    /\ segments = <<>>
    /\ sorted_graphics = <<>>
    /\ g_timestamps = <<>>
    /\ textclip_ok = TRUE
    /\ card_ok = [intro |-> TRUE, outro |-> TRUE]
    /\ clips = <<>>
    /\ actual_crossfade = 0
    /\ padding = 0
    /\ result = "running"
    /\ final = NoFinal
    /\ call = 1
    /\ first = NoGraph
    /\ render_log = <<>>
    /\ PipelineIdle

Init == InitFrom(Scenarios)
InitExact == InitFrom(ExactScenarios)
InitTwice == InitFrom(TwiceScenarios)

(* ------------------------------ Editor.edit --------------------------- *)
\* lines 74-78: VideoFileClip(video_path) loads, or raises and edit returns None
LoadVideo ==
    /\ pc = "load"
    /\ \E ok \in BOOLEAN :
          IF ok THEN pc' = "segments" /\ result' = result
                ELSE pc' = "done" /\ result' = "None"
    /\ UNCHANGED <<card_ok, analysis_data, plan_at_call, music, music_volume, visual_filter, video_audio,
                   music_file, final, call, first, graphic_paths, video_duration,
                   crossfade, intro_text, outro_text, segments, sorted_graphics,
                   g_timestamps, textclip_ok, clips, actual_crossfade, padding>>
    /\ UNCHANGED <<render_log, pipeline_vars>>

SortedByStartUnsorted(segs) == segs

\* a sort that is not stable: entries with equal keys come out in reverse
SortedByStartTiesReversed(segs) ==
    LET n == Len(segs)
        pairs == [k \in 1..n |-> <<segs[n + 1 - k]["start"], segs[n + 1 - k]>>]
        sorted == SortPairs(pairs)
    IN  [k \in 1..n |-> sorted[k][2]]

\* segments.sort(key=lambda x: x["start"]), line 88
SortedByStart(segs) ==
    LET pairs == [k \in 1..Len(segs) |-> <<segs[k]["start"], segs[k]>>]
        sorted == SortPairs(pairs)
    IN  [k \in 1..Len(segs) |-> sorted[k][2]]

LocalSegmentsNoFallback(given) == given

\* lines 81-83: `if not segments:` puts the whole video in place of an empty list
LocalSegments(given) ==
    IF given = <<>> THEN <<Seg(0, video_duration)>> ELSE given

\* lines 80-88: the keep-list, or the whole video when the plan has none; the
\* sort is in place, so a list taken from the plan is sorted inside the plan
SelectSegments ==
    /\ pc = "segments"
    /\ LET given == Get(analysis_data, "segments", <<>>)
           local == LocalSegments(given)
       IN  IF \E k \in 1..Len(local) : "start" \notin DOMAIN local[k]
           THEN \* KeyError leaves edit(): nothing catches it
                /\ pc' = "done"
                /\ result' = "exception"
                /\ segments' = local
                /\ UNCHANGED analysis_data
           ELSE /\ pc' = "index"
                /\ result' = result
                /\ segments' = SortedByStart(local)
                /\ analysis_data' =
                      IF given = <<>> THEN analysis_data
                      ELSE [analysis_data EXCEPT !["segments"] = SortedByStart(local)]
    /\ UNCHANGED <<card_ok, plan_at_call, music, music_volume, visual_filter, video_audio,
                   music_file, final, call, first, graphic_paths, video_duration, crossfade,
                   intro_text, outro_text, sorted_graphics, g_timestamps,
                   textclip_ok, clips, actual_crossfade, padding>>
    /\ UNCHANGED <<render_log, pipeline_vars>>

\* the requests sorted first and numbered afterwards
GraphicTuplesNumberedAfterSort(reqs) ==
    LET sorted == SortPairs([k \in 1..Len(reqs) |->
                               <<FRound(Get(reqs[k], "timestamp", 0)), reqs[k]>>])
    IN  [k \in 1..Len(reqs) |-> <<sorted[k][1], k - 1, sorted[k][2]>>]

\* lines 92-102: (timestamp, original index, request) sorted by timestamp
GraphicTuples(reqs) ==
    [k \in 1..Len(reqs) |-> <<FRound(Get(reqs[k], "timestamp", 0)), k - 1, reqs[k]>>]

IndexGraphics ==
    /\ pc = "index"
    /\ LET sorted == SortPairs(GraphicTuples(Get(analysis_data, "graphics", <<>>)))
       IN  /\ sorted_graphics' = sorted
           /\ g_timestamps' = [k \in 1..Len(sorted) |-> sorted[k][1]]
    /\ pc' = "clips"
    /\ UNCHANGED <<card_ok, analysis_data, plan_at_call, music, music_volume, visual_filter, video_audio,
                   music_file, final, call, first, graphic_paths, video_duration,
                   crossfade, intro_text, outro_text, segments, textclip_ok,
                   clips, actual_crossfade, padding, result>>
    /\ UNCHANGED <<render_log, pipeline_vars>>

Layer(kind, i, rel_start, duration) ==
    [kind |-> kind, index |-> i, start |-> rel_start, duration |-> duration]

\* os.path.exists(img_path) for a path taken from graphic_paths
PathExists(img_path) == img_path # "nofile"

ImagePathOffByOne(i) == Get(graphic_paths, i + 1, "None")

\* graphic_paths.get(i), line 131
ImagePath(i) == Get(graphic_paths, i, "None")

StartsInSegment(g_time, g_end, start) == g_time >= start

\* line 136: a candidate of the prefix overlaps when it ends after the start
OverlapsSegment(g_time, g_end, start) == g_end > start

RelativeStartUnclamped(t, start) == FSub(t, start)

\* lines 139 and 168
RelativeStart(t, start) == Max(0, FSub(t, start))

OverlapEndUnclipped(event_end, end) == event_end

\* lines 142 and 171: the overlap stops at the end of the segment
OverlapEnd(event_end, end) == Min(event_end, end)

LongEnoughInclusive(duration) == duration >= MinCaptionDuration

\* line 174
LongEnough(duration) == duration > MinCaptionDuration

\* lines 131-155: the layer one candidate graphic adds to the segment [start, end)
GraphicLayer(g, start, end) ==
    LET g_time == g[1]
        i == g[2]
        img_path == ImagePath(i)
        g_duration == FRound(Get(g[3], "duration", DefaultGraphicDuration))
        g_end == FAdd(g_time, g_duration)
        rel_start == RelativeStart(g_time, start)
        overlap_start == Max(g_time, start)
        overlap_end == OverlapEnd(g_end, end)
        duration == FSub(overlap_end, overlap_start)
    IN  IF img_path # "None" /\ PathExists(img_path)
        THEN IF OverlapsSegment(g_time, g_end, start)
             THEN IF duration > 0
                  THEN IF img_path = "file"
                       THEN <<Layer("graphic", i, rel_start, duration)>>
                       ELSE <<>>   \* ImageClip raised; the except clause drops it
                  ELSE <<>>
             ELSE <<>>
        ELSE <<>>

\* lines 128-130: the candidates are sorted_graphics[:idx_end]
RECURSIVE GraphicLayers(_, _, _)
GraphicLayers(n, start, end) ==
    IF n = 0 THEN <<>>
    ELSE GraphicLayers(n - 1, start, end) \o GraphicLayer(sorted_graphics[n], start, end)

\* lines 159-225: the layer one caption adds to the segment [start, end)
CaptionLayer(cap, j, start, end, tc_ok) ==
    LET c_start == FRound(Get(cap, "start", 0))
        c_end == FRound(Get(cap, "end", 0))
        text == Get(cap, "text", "")
        rel_start == RelativeStart(c_start, start)
        overlap_start == Max(c_start, start)
        overlap_end == OverlapEnd(c_end, end)
        duration == FSub(overlap_end, overlap_start)
    IN  IF text = "" THEN <<>>
        ELSE IF c_end > start /\ c_start < end
             THEN IF LongEnough(duration)
                  THEN IF tc_ok THEN <<Layer("caption", j, rel_start, duration)>>
                       ELSE <<>>   \* TextClip raised; the except clause drops it
                  ELSE <<>>
             ELSE <<>>

RECURSIVE CaptionLayers(_, _, _, _, _)
CaptionLayers(caps, n, start, end, tc_ok) ==
    IF n = 0 THEN <<>>
    ELSE CaptionLayers(caps, n - 1, start, end, tc_ok)
         \o CaptionLayer(caps[n], n - 1, start, end, tc_ok)

Clip(kind, start, end, layers) ==
    [kind |-> kind, start |-> start, end |-> end, duration |-> FSub(end, start),
     layers |-> layers, size |-> "video.size", crossfadein |-> 0, crossfadeout |-> 0]

\* lines 108-116
ClampedStart(seg) == Max(0, FRound(Get(seg, "start", 0)))
ClampedEnd(seg) == Min(video_duration, FRound(Get(seg, "end", video_duration)))

\* lines 107-232: the render unit of one segment, none when it is degenerate
SegmentClip(seg, tc_ok) ==
    LET start == ClampedStart(seg)
        end == ClampedEnd(seg)
        idx_end == BisectLeft(g_timestamps, end)
        captions == Get(analysis_data, "captions", <<>>)
    IN  IF start >= end THEN <<>>
        ELSE <<Clip("segment", start, end,
                    GraphicLayers(idx_end, start, end)
                    \o CaptionLayers(captions, Len(captions), start, end, tc_ok))>>

RECURSIVE SegmentClips(_, _)
SegmentClips(n, tc_ok) ==
    IF n = 0 THEN <<>>
    ELSE SegmentClips(n - 1, tc_ok) \o SegmentClip(segments[n], tc_ok)

BuildClips ==
    /\ pc = "clips"
    /\ \E tc_ok \in BOOLEAN :
          /\ textclip_ok' = tc_ok
          /\ clips' = SegmentClips(Len(segments), tc_ok)
    /\ pc' = "assemble"
    /\ UNCHANGED <<card_ok, analysis_data, plan_at_call, music, music_volume, visual_filter, video_audio,
                   music_file, final, call, first, graphic_paths, video_duration,
                   crossfade, intro_text, outro_text, segments, sorted_graphics,
                   g_timestamps, actual_crossfade, padding, result>>
    /\ UNCHANGED <<render_log, pipeline_vars>>

\* lines 311-313
NoClips ==
    /\ pc = "assemble"
    /\ clips = <<>>
    /\ pc' = "done"
    /\ result' = "None"
    /\ UNCHANGED <<card_ok, analysis_data, plan_at_call, music, music_volume, visual_filter, video_audio,
                   music_file, final, call, first, graphic_paths, video_duration,
                   crossfade, intro_text, outro_text, segments, sorted_graphics,
                   g_timestamps, textclip_ok, clips, actual_crossfade, padding>>
    /\ UNCHANGED <<render_log, pipeline_vars>>

\* _create_title_card, lines 23-36: a card, or None when a clip cannot be built
TitleCards(text, kind, ok) ==
    IF text # "" /\ ok THEN <<Clip(kind, 0, TitleCardDuration, <<>>)>> ELSE <<>>

\* a card is attempted only for a text that is given
CardOutcomes(text) == IF text # "" THEN BOOLEAN ELSE {TRUE}

WithTitleCardsAppended(cs, intro, outro) == cs \o intro \o outro

\* clips.insert(0, intro_clip) and clips.append(outro_clip), lines 242 and 249
WithTitleCards(cs, intro, outro) == intro \o cs \o outro

\* lines 235-249
AddTitleCards ==
    /\ pc = "assemble"
    /\ clips # <<>>
    /\ \E intro_ok \in CardOutcomes(intro_text), outro_ok \in CardOutcomes(outro_text) :
          /\ card_ok' = [intro |-> intro_ok, outro |-> outro_ok]
          /\ clips' = WithTitleCards(clips, TitleCards(intro_text, "intro", intro_ok),
                                     TitleCards(outro_text, "outro", outro_ok))
    /\ pc' = "transitions"
    /\ UNCHANGED <<analysis_data, plan_at_call, music, music_volume, visual_filter, video_audio,
                   music_file, final, call, first, graphic_paths, video_duration,
                   crossfade, intro_text, outro_text, segments, sorted_graphics,
                   g_timestamps, textclip_ok, actual_crossfade, padding, result>>
    /\ UNCHANGED <<render_log, pipeline_vars>>

\* min(c.duration for c in clips), line 257
MinDuration(cs) ==
    CHOOSE d \in {cs[k].duration : k \in 1..Len(cs)} :
        \A k \in 1..Len(cs) : d <= cs[k].duration

CappedCrossfadeNoFloor(requested, min_duration) ==
    Min(requested, FSub(min_duration, CrossfadeMargin))

\* line 258
CappedCrossfade(requested, min_duration) ==
    Min(requested, Max(0, FSub(min_duration, CrossfadeMargin)))

TransitionsWantedOffByOne(requested, n) == requested > 0 /\ n > 0

\* `if crossfade > 0 and len(clips) > 1`, line 255
TransitionsWanted(requested, n) == requested > 0 /\ n > 1

WithCrossfadeAll(cs, capped) ==
    [k \in 1..Len(cs) |-> [cs[k] EXCEPT !.crossfadein = capped]]

\* line 262: crossfadein on every clip but the first; nothing fades a clip out
WithCrossfade(cs, capped) ==
    [k \in 1..Len(cs) |->
        IF k > 1 THEN [cs[k] EXCEPT !.crossfadein = capped] ELSE cs[k]]

NegativePaddingUnsigned(capped) == capped

\* padding = -actual_crossfade, line 263
NegativePadding(capped) == 0 - capped

\* lines 253-263
PlanCrossfade ==
    /\ pc = "transitions"
    /\ IF TransitionsWanted(crossfade, Len(clips))
       THEN LET capped == CappedCrossfade(crossfade, MinDuration(clips))
            IN  /\ actual_crossfade' = capped
                /\ clips' = WithCrossfade(clips, capped)
                /\ padding' = NegativePadding(capped)
       ELSE UNCHANGED <<actual_crossfade, clips, padding>>
    /\ pc' = "render"
    /\ UNCHANGED <<card_ok, analysis_data, plan_at_call, music, music_volume, visual_filter, video_audio,
                   music_file, final, call, first, graphic_paths, video_duration,
                   crossfade, intro_text, outro_text, segments, sorted_graphics,
                   g_timestamps, textclip_ok, result>>
    /\ UNCHANGED <<render_log, pipeline_vars>>

RECURSIVE SumDurations(_, _)
SumDurations(cs, n) ==
    IF n = 0 THEN 0 ELSE FAdd(SumDurations(cs, n - 1), cs[n].duration)

\* concatenate_videoclips(clips, method="compose", padding=padding), line 266:
\* the units one after the other, each start moved by the padding; the sound
\* of the result is the sound of the units, and only segments of a source
\* with sound have any
Concatenate(cs, pad) ==
    [built |-> TRUE,
     duration |-> Max(0, FAdd(SumDurations(cs, Len(cs)), pad * Len(cs))),
     filters |-> <<>>,
     audio |-> IF video_audio
               THEN [kind |-> "original", original_gains |-> <<>>, music |-> NoTrack]
               ELSE NoAudio]

\* lines 269-276: the three names the chain knows; any other name does nothing
ApplyFilter(f, name) ==
    IF name = "" THEN f
    ELSE IF name = "black_white" THEN [f EXCEPT !.filters = Append(@, "blackwhite")]
    ELSE IF name = "invert_colors" THEN [f EXCEPT !.filters = Append(@, "invert_colors")]
    ELSE IF name = "painting" THEN [f EXCEPT !.filters = Append(@, "painting")]
    ELSE f

FitMusicLoopOnly(source, final_duration) ==
    IF source < final_duration
    THEN [NoTrack EXCEPT !.source = source, !.fit = "loop", !.duration = final_duration]
    ELSE [NoTrack EXCEPT !.source = source, !.duration = source]

\* lines 283-289: afx.audio_loop(duration=final.duration) when the music is
\* shorter than the video, subclip(0, final.duration) otherwise
FitMusic(source, final_duration) ==
    IF source < final_duration
    THEN [NoTrack EXCEPT !.source = source, !.fit = "loop", !.duration = final_duration]
    ELSE [NoTrack EXCEPT !.source = source, !.fit = "trim", !.start = 0,
                         !.duration = FSub(final_duration, 0)]

VolumexTwice(track, volume) == [track EXCEPT !.gains = Append(Append(@, volume), volume)]

\* music_clip.volumex(music_volume), line 292
Volumex(track, volume) == [track EXCEPT !.gains = Append(@, volume)]

MixAlways(audio, music_clip) == [audio EXCEPT !.kind = "mixed", !.music = music_clip]

\* lines 295-298: CompositeAudioClip only when the video has sound
Mix(audio, music_clip) ==
    IF audio.kind # "none"
    THEN [audio EXCEPT !.kind = "mixed", !.music = music_clip]
    ELSE [audio EXCEPT !.kind = "music", !.music = music_clip]

\* lines 279-302: the music when a path is given and a file is there; an
\* exception (AudioFileClip cannot read the file) leaves `final` as it was
AddMusic(f) ==
    IF music # "" /\ music_file.state # "nofile"
    THEN IF music_file.state = "badaudio" THEN f
         ELSE [f EXCEPT !.audio =
                  Mix(f.audio, Volumex(FitMusic(music_file.duration, f.duration),
                                       music_volume))]
    ELSE f

ReturnedAlwaysPath(outcome) == "output_path"

\* lines 305-310: output_path after write_videofile, None from the except clause
Returned(outcome) == IF outcome = "written" THEN "output_path" ELSE "None"

\* lines 265-310: concatenate, filter, add the music and write; an exception
\* of the concatenation or of write_videofile gives None
Render ==
    /\ pc = "render"
    /\ \E outcome \in {"written", "write_failed", "concatenate_failed"} :
          /\ final' = IF outcome = "concatenate_failed" THEN final
                      ELSE AddMusic(ApplyFilter(Concatenate(clips, padding),
                                                visual_filter))
          /\ result' = Returned(outcome)
          /\ render_log' = Append(render_log, outcome)
    /\ pc' = "done"
    /\ UNCHANGED <<card_ok, analysis_data, plan_at_call, music, music_volume, visual_filter,
                   video_audio, music_file, call, first, graphic_paths,
                   video_duration, crossfade, intro_text, outro_text, segments,
                   sorted_graphics, g_timestamps, textclip_ok, clips,
                   actual_crossfade, padding>>
    /\ UNCHANGED pipeline_vars

\* the caller calls edit() again with the same plan object, asset map and
\* configuration: the locals are new, the plan is the object the first call left
CallAgain ==
    /\ pc = "done"
    /\ call = 1
    /\ call' = 2
    /\ first' = [clips |-> clips, padding |-> padding,
                 actual_crossfade |-> actual_crossfade, final |-> final,
                 result |-> result, textclip_ok |-> textclip_ok,
                 card_ok |-> card_ok, segments |-> segments, plan |-> plan_at_call]
    /\ plan_at_call' = analysis_data
    /\ pc' = "load"
    /\ segments' = <<>>
    /\ sorted_graphics' = <<>>
    /\ g_timestamps' = <<>>
    /\ textclip_ok' = TRUE
    /\ card_ok' = [intro |-> TRUE, outro |-> TRUE]
    /\ clips' = <<>>
    /\ actual_crossfade' = 0
    /\ padding' = 0
    /\ result' = "running"
    /\ final' = NoFinal
    /\ render_log' = <<>>
    /\ UNCHANGED <<analysis_data, graphic_paths, video_duration, crossfade,
                   intro_text, outro_text, music, music_volume, visual_filter,
                   video_audio, music_file>>
    /\ UNCHANGED pipeline_vars

Next ==
    \/ LoadVideo
    \/ SelectSegments
    \/ IndexGraphics
    \/ BuildClips
    \/ NoClips
    \/ AddTitleCards
    \/ PlanCrossfade
    \/ Render

Spec == Init /\ [][Next]_vars

\* the same program on the inputs whose arithmetic is exact
SpecExact == InitExact /\ [][Next]_vars

\* two calls in succession on the same objects
NextTwice == Next \/ CallAgain
SpecTwice == InitTwice /\ [][NextTwice]_vars

(* --------------------------- Generator.generate ------------------------- *)
\* edit() is not running
EditorIdle ==
    /\ pc = "idle"
    /\ analysis_data = Plan(<<>>, <<>>, <<>>)
    /\ plan_at_call = Plan(<<>>, <<>>, <<>>)
    /\ graphic_paths = <<>>
    /\ video_duration = 0
    /\ crossfade = 0
    /\ intro_text = ""
    /\ outro_text = ""
    /\ music = ""
    /\ music_volume = DefaultMusicVolume
    /\ visual_filter = ""
    /\ video_audio = TRUE
    /\ music_file = NoMusicFile
    /\ segments = <<>>
    /\ sorted_graphics = <<>>
    /\ g_timestamps = <<>>
    /\ textclip_ok = TRUE
    /\ card_ok = [intro |-> TRUE, outro |-> TRUE]
    /\ clips = <<>>
    /\ actual_crossfade = 0
    /\ padding = 0
    /\ result = "running"
    /\ final = NoFinal
    /\ call = 1
    /\ first = NoGraph
    /\ render_log = <<>>

\* what requests.post answers or raises: a status code with what the handler
\* reads of the response (the image bytes, the JSON body, the headers)
Response(status, image, body, estimated_time, retry_after) ==
    [status |-> status, image |-> image, body |-> body,
     estimated_time |-> estimated_time, retry_after |-> retry_after]
Responses200 == {Response("200", img, "image", 0, 0) : img \in {"image", "garbage"}}
Responses503 ==
    {Response("503", "none", "estimate", e, 0) : e \in {1, 30}}
    \cup {Response("503", "none", b, 0, 0) : b \in {"no key", "not JSON"}}
ResponsesOther ==
    {Response("500", "none", "text", 0, 0), Response("429", "none", "text", 0, 1)}
RequestException == Response("RequestException", "none", "none", 0, 0)

\* generate() has been called and is about to make its first POST
InitGenerate ==
    /\ EditorIdle
    /\ generation = [IdleGeneration EXCEPT !.pc = "post"]
    /\ graphics_phase = IdleGraphicsPhase
    /\ analysis = IdleAnalysis

\* one more POST of the loop of line 43 has been answered by r
Posted(r) ==
    [generation EXCEPT !.posts = @ + 1, !.responses = Append(@, r), !.i = @ + 1]

\* `return x`
Return(g, x) == [g EXCEPT !.pc = "done", !.result = x]

\* lines 47-61: the image is saved and its path returned, or saving raises
Post200 ==
    /\ generation.pc = "post"
    /\ \E r \in Responses200 :
          generation' = Return(Posted(r), IF r.image = "image" THEN "path" ELSE "None")
    /\ UNCHANGED <<editor_vars, graphics_phase, analysis>>

WaitTimeAlwaysDefault(r) == DefaultWaitTime

\* lines 64-67: response.json().get('estimated_time', 20), 20 when json() raises
WaitTime(r) ==
    IF r.body = "estimate" THEN r.estimated_time ELSE DefaultWaitTime

\* lines 62-69: sleep and go round the loop; line 77 after the last round
Post503 ==
    /\ generation.pc = "post"
    /\ \E r \in Responses503 :
          LET slept == [Posted(r) EXCEPT !.sleeps = Append(@, WaitTime(r))]
          IN  generation' = IF slept.i < max_retries THEN slept
                            ELSE Return(slept, "None")
    /\ UNCHANGED <<editor_vars, graphics_phase, analysis>>

\* lines 70-72: any other status ends the call
PostOtherStatus ==
    /\ generation.pc = "post"
    /\ \E r \in ResponsesOther : generation' = Return(Posted(r), "None")
    /\ UNCHANGED <<editor_vars, graphics_phase, analysis>>

\* lines 73-75: requests.post raised
PostRaised ==
    /\ generation.pc = "post"
    /\ generation' = Return(Posted(RequestException), "None")
    /\ UNCHANGED <<editor_vars, graphics_phase, analysis>>

NextGenerate ==
    \/ Post200
    \/ Post503
    \/ PostOtherStatus
    \/ PostRaised

SpecGenerate == InitGenerate /\ [][NextGenerate]_vars

(* --------------------- main: the generation phase ----------------------- *)
\* the graphics of a plan as main reads them: with a prompt, with an empty one,
\* without the key
RequestPool ==
    {Gfx(80, 60), [Gfx(80, 60) EXCEPT !.prompt = ""], Without(Gfx(80, 60), "prompt")}

\* main has the plan and is about to submit the generations (line 122)
InitGraphicsPhase ==
    /\ EditorIdle
    /\ generation = IdleGeneration
    /\ analysis = IdleAnalysis
    /\ \E reqs \in SeqsUpTo(RequestPool, MaxRequests) :
          graphics_phase = [IdleGraphicsPhase EXCEPT !.pc = "submit",
                                                     !.graphics_reqs = reqs]

\* the path generate() returns for filename_prefix graphic_<i>
PathOf(i) == <<"graphic", i>>

\* f with x mapped to v, x in the domain or not
Put(f, x, v) == [y \in DOMAIN f \cup {x} |-> IF y = x THEN v ELSE f[y]]

\* lines 124-128: one round of the enumerate loop; a request with a prompt
\* becomes a task of the executor
Submit ==
    /\ graphics_phase.pc = "submit"
    /\ LET i == graphics_phase.next
           reqs == graphics_phase.graphics_reqs
       IN  IF i < Len(reqs)
           THEN graphics_phase' =
                  [graphics_phase EXCEPT
                     !.next = i + 1,
                     !.futures = IF Get(reqs[i + 1], "prompt", "") # ""
                                 THEN Put(@, i, "running") ELSE @]
           ELSE graphics_phase' = [graphics_phase EXCEPT !.pc = "collect"]
    /\ UNCHANGED <<editor_vars, generation, analysis>>

\* a worker thread: generator.generate returns a path or None, or raises
WorkerFinish ==
    /\ \E i \in DOMAIN graphics_phase.futures :
          /\ graphics_phase.futures[i] = "running"
          /\ \E outcome \in {"path", "None", "raised"} :
                graphics_phase' = [graphics_phase EXCEPT !.futures[i] = outcome]
    /\ UNCHANGED <<editor_vars, generation, analysis>>

AfterResultUncaught(phase, i, outcome) ==
    IF outcome = "path"
    THEN [phase EXCEPT !.graphic_paths = Put(@, i, PathOf(i)), !.seen = @ \cup {i}]
    ELSE IF outcome = "raised" THEN [phase EXCEPT !.pc = "aborted"]
    ELSE [phase EXCEPT !.seen = @ \cup {i}]

\* lines 131-137: the body of the as_completed loop for the future of index i
AfterResult(phase, i, outcome) ==
    IF outcome = "path"
    THEN [phase EXCEPT !.graphic_paths = Put(@, i, PathOf(i)), !.seen = @ \cup {i}]
    ELSE [phase EXCEPT !.seen = @ \cup {i}]

\* line 130: as_completed yields a finished future, in any order of completion
Collect ==
    /\ graphics_phase.pc = "collect"
    /\ \E i \in DOMAIN graphics_phase.futures \ graphics_phase.seen :
          /\ graphics_phase.futures[i] # "running"
          /\ graphics_phase' = AfterResult(graphics_phase, i, graphics_phase.futures[i])
    /\ UNCHANGED <<editor_vars, generation, analysis>>

\* lines 139-153: every future was yielded, the executor is closed, edit is called
StartEdit ==
    /\ graphics_phase.pc = "collect"
    /\ graphics_phase.seen = DOMAIN graphics_phase.futures
    /\ graphics_phase' = [graphics_phase EXCEPT !.pc = "edit"]
    /\ UNCHANGED <<editor_vars, generation, analysis>>

NextGraphicsPhase ==
    \/ Submit
    \/ WorkerFinish
    \/ Collect
    \/ StartEdit

SpecGraphicsPhase == InitGraphicsPhase /\ [][NextGraphicsPhase]_vars

(* --------------------- Analyzer.analyze: the response ------------------- *)
\* a response text is a string of tokens: braces, a JSON scalar "v", prose "x",
\* the fence ``` (written "fence") and the word json, so that ```json is the
\* fence followed by the word, as in the text it is
Tokens == {"{", "}", "v", "x", "fence", "json"}
LBrace == <<"{">>
RBrace == <<"}">>
Fence == <<"fence">>
FenceJson == <<"fence", "json">>

\* the JSON texts: a scalar, the empty object, an object of one member
RECURSIVE IsJSON(_)
IsJSON(t) ==
    \/ t = <<"v">>
    \/ /\ Len(t) >= 2
       /\ t[1] = "{"
       /\ t[Len(t)] = "}"
       /\ \/ Len(t) = 2
          \/ IsJSON(SubSeq(t, 2, Len(t) - 1))

JSONDecodeError == [tag |-> "JSONDecodeError", depth |-> 0, leaf |-> ""]
ReturnedNone == [tag |-> "None", depth |-> 0, leaf |-> ""]

\* json.loads: the value of a JSON text (how deep the objects nest and what is
\* inside the innermost), JSONDecodeError for any other text
loads(t) ==
    IF IsJSON(t)
    THEN [tag |-> "plan",
          depth |-> Cardinality({i \in 1..Len(t) : t[i] = "{"}),
          leaf |-> IF \E i \in 1..Len(t) : t[i] = "v" THEN "v" ELSE "empty"]
    ELSE JSONDecodeError

Occurs(t, sub, i) ==
    /\ i + Len(sub) - 1 <= Len(t)
    /\ SubSeq(t, i, i + Len(sub) - 1) = sub

\* str.find and str.rfind, with positions counted from 1 and 0 for Python's -1
find(t, sub) ==
    IF \E i \in 1..Len(t) : Occurs(t, sub, i)
    THEN CHOOSE i \in 1..Len(t) :
            Occurs(t, sub, i) /\ \A j \in 1..(i - 1) : ~Occurs(t, sub, j)
    ELSE 0

rfindFirst(t, sub) == find(t, sub)

rfind(t, sub) ==
    IF \E i \in 1..Len(t) : Occurs(t, sub, i)
    THEN CHOOSE i \in 1..Len(t) :
            Occurs(t, sub, i) /\ \A j \in (i + 1)..Len(t) : ~Occurs(t, sub, j)
    ELSE 0

\* str.split(sub): the parts between the occurrences of sub, from the left
RECURSIVE split(_, _)
split(t, sub) ==
    LET i == find(t, sub)
    IN  IF i = 0 THEN <<t>>
        ELSE <<SubSeq(t, 1, i - 1)>> \o split(SubSeq(t, i + Len(sub), Len(t)), sub)

\* lines 146-157: the fence fallbacks; a failed one is caught and passed over
FromFence(t) ==
    IF find(t, FenceJson) # 0
    THEN loads(split(split(t, FenceJson)[2], Fence)[1])
    ELSE IF find(t, Fence) # 0
         THEN loads(split(t, Fence)[2])
         ELSE JSONDecodeError

\* lines 160-167: the text from the first { to the last }
FromBraces(t) ==
    LET start_idx == find(t, LBrace)
        end_idx == rfind(t, RBrace)
    IN  IF start_idx # 0 /\ end_idx # 0
        THEN loads(SubSeq(t, start_idx, end_idx))
        ELSE JSONDecodeError

\* lines 135-169: what analyze returns for the content of the response
ParseResponse(result_text) ==
    IF result_text = <<>> THEN ReturnedNone
    ELSE IF loads(result_text).tag = "plan" THEN loads(result_text)
    ELSE IF FromFence(result_text).tag = "plan" THEN FromFence(result_text)
    ELSE IF FromBraces(result_text).tag = "plan" THEN FromBraces(result_text)
    ELSE ReturnedNone

\* the request is about to be sent (line 124)
InitAnalyze ==
    /\ EditorIdle
    /\ generation = IdleGeneration
    /\ graphics_phase = IdleGraphicsPhase
    /\ analysis = [IdleAnalysis EXCEPT !.pc = "request"]

\* lines 125-169: the API answers with a content, empty or not
Respond ==
    /\ analysis.pc = "request"
    /\ \E t \in SeqsUpTo(Tokens, MaxTextLen) :
          analysis' = [pc |-> "done", result_text |-> t, result |-> ParseResponse(t)]
    /\ UNCHANGED <<editor_vars, generation, graphics_phase>>

\* lines 171-176: the call of the API raises, APIError or any other Exception
CreateRaises ==
    /\ analysis.pc = "request"
    /\ analysis' = [pc |-> "raised", result_text |-> <<>>, result |-> ReturnedNone]
    /\ UNCHANGED <<editor_vars, generation, graphics_phase>>

NextAnalyze ==
    \/ Respond
    \/ CreateRaises

SpecAnalyze == InitAnalyze /\ [][NextAnalyze]_vars

(* ====================== the claims about Editor.edit ==================== *)
IsSegment(c) == c.kind = "segment"
SegmentUnits == SelectSeq(clips, IsSegment)

\* the clip loop of lines 107-232 has run in this call
ClipsBuilt ==
    \/ pc \in {"assemble", "transitions", "render"}
    \/ pc = "done" /\ segments # <<>> /\ result # "exception"

RawSegments == Get(plan_at_call, "segments", <<>>)
KeepList == IF RawSegments = <<>> THEN <<Seg(0, video_duration)>> ELSE RawSegments

KeepStart(e) == IF Get(e, "start", 0) < 0 THEN 0 ELSE Get(e, "start", 0)
KeepEnd(e) ==
    IF Get(e, "end", video_duration) > video_duration THEN video_duration
    ELSE Get(e, "end", video_duration)
Survivors(raw) == {i \in 1..Len(raw) : KeepStart(raw[i]) < KeepEnd(raw[i])}

RankByRawStart(raw, i) ==
    1 + Cardinality({j \in Survivors(raw) :
            \/ raw[j].start < raw[i].start
            \/ raw[j].start = raw[i].start /\ j < i})

RankByClampedStart(raw, i) ==
    1 + Cardinality({j \in Survivors(raw) :
            \/ KeepStart(raw[j]) < KeepStart(raw[i])
            \/ KeepStart(raw[j]) = KeepStart(raw[i]) /\ j < i})

\* C1 as amended: in every call that reaches the clip loop, the rendered
\* segments are exactly the entries of the keep-list (the single entry [0, D]
\* when the plan has none) clamped to start = max(0, start), end = min(D, end),
\* without the entries with start >= end, one render unit per survivor (no
\* merging, no deduplication), ordered by their RAW start ascending with ties
\* in input order.
C1_RenderedInRawStartOrder ==
    ClipsBuilt =>
        /\ Len(SegmentUnits) = Cardinality(Survivors(KeepList))
        /\ \A i \in Survivors(KeepList) :
              LET u == SegmentUnits[RankByRawStart(KeepList, i)]
              IN  u.start = KeepStart(KeepList[i]) /\ u.end = KeepEnd(KeepList[i])

\* C1 as stated: the survivors are ordered by their CLAMPED start ascending
\* with ties in input order.
C1_RenderedInClampedStartOrder ==
    (ClipsBuilt /\ RawSegments # <<>>) =>
        /\ Len(SegmentUnits) = Cardinality(Survivors(RawSegments))
        /\ \A i \in Survivors(RawSegments) :
              LET u == SegmentUnits[RankByClampedStart(RawSegments, i)]
              IN  u.start = KeepStart(RawSegments[i]) /\ u.end = KeepEnd(RawSegments[i])

\* an unsorted list of two overlapping survivors, one clamped at 0 and both rendered
C1_Witness ==
    /\ ClipsBuilt
    /\ Len(RawSegments) = 2
    /\ RawSegments[1].start > RawSegments[2].start
    /\ RawSegments[2].start < 0
    /\ Len(SegmentUnits) = 2
    /\ SegmentUnits[1].start = 0
    /\ SegmentUnits[2].start < SegmentUnits[1].end

\* C2 as stated: a non-empty keep-list whose entries are all degenerate after
\* clamping is rendered as the single segment [0, D].
C2_AllDegenerateFallsBack ==
    (ClipsBuilt /\ RawSegments # <<>> /\ Survivors(RawSegments) = {}) =>
        /\ Len(SegmentUnits) = 1
        /\ SegmentUnits[1].start = 0
        /\ SegmentUnits[1].end = video_duration

\* C3: a plan without segments (no key, or an empty list) is rendered as
\* exactly one segment [0, D].
C3_EmptyPlanWholeVideo ==
    (ClipsBuilt /\ RawSegments = <<>>) =>
        /\ Len(SegmentUnits) = 1
        /\ SegmentUnits[1].start = 0
        /\ SegmentUnits[1].end = video_duration
        /\ SegmentUnits[1].duration = video_duration

\* the scenario of the spec: segments [], source of 42.0 s (840 ticks)
C3_Witness ==
    /\ pc = "render"
    /\ "segments" \in DOMAIN plan_at_call
    /\ plan_at_call.segments = <<>>
    /\ video_duration = 840
    /\ Len(clips) = 1
    /\ clips[1].start = 0 /\ clips[1].end = 840

(* ------------------------- overlays: C4 .. C9 -------------------------- *)
RECURSIVE SumSeq(_)
SumSeq(q) == IF q = <<>> THEN 0 ELSE Head(q) + SumSeq(Tail(q))

PlanGraphics == Get(plan_at_call, "graphics", <<>>)
PlanCaptions == Get(plan_at_call, "captions", <<>>)
GraphicIds == 0..(Len(PlanGraphics) - 1)
CaptionIds == 0..(Len(PlanCaptions) - 1)

\* the source span [t, t') of graphic i and of caption j (plan indices, 0-based)
GTime(i) == Get(PlanGraphics[i + 1], "timestamp", 0)
GEnd(i) == FAdd(GTime(i), Get(PlanGraphics[i + 1], "duration", DefaultGraphicDuration))
CStart(j) == Get(PlanCaptions[j + 1], "start", 0)
CEnd(j) == Get(PlanCaptions[j + 1], "end", 0)
CText(j) == Get(PlanCaptions[j + 1], "text", "")

\* the asset of graphic i is there and can be read
AssetAvailable(i) == i \in DOMAIN graphic_paths /\ graphic_paths[i] = "file"

\* the positions of the layers of unit u that place overlay (kind, i)
LayersOf(u, kind, i) ==
    {k \in 1..Len(u.layers) : u.layers[k].kind = kind /\ u.layers[k].index = i}
Placed(u, kind, i) == LayersOf(u, kind, i) # {}

\* min(t', e) - max(t, s) as the code computes it
Overlap(t, tEnd, u) ==
    FSub(IF tEnd < u.end THEN tEnd ELSE u.end, IF t > u.start THEN t ELSE u.start)

UnitIds == 1..Len(SegmentUnits)

\* C4 as amended: for every kept segment [s, e) and every graphic whose asset
\* is available, the graphic is placed on the segment iff timestamp < e and
\* timestamp + duration > s and its span is not empty (timestamp + duration >
\* timestamp); the bisect prefix over the graphics sorted by timestamp selects
\* exactly the graphics a scan of the whole plan list selects with this
\* predicate, each once, also those that start before s and end inside.
C4_PlacedIffNonEmptyOverlap ==
    ClipsBuilt =>
        \A n \in UnitIds :
            LET u == SegmentUnits[n]
                scan == {i \in GraphicIds :
                            /\ AssetAvailable(i)
                            /\ GTime(i) < u.end
                            /\ GEnd(i) > u.start
                            /\ GEnd(i) > GTime(i)}
            IN  /\ \A i \in GraphicIds : Placed(u, "graphic", i) <=> i \in scan
                /\ Cardinality({k \in 1..Len(u.layers) : u.layers[k].kind = "graphic"})
                   = Cardinality(scan)

\* C4 as stated: placed iff timestamp < e and timestamp + duration > s.
C4_PlacedIffOverlapPredicate ==
    ClipsBuilt =>
        \A n \in UnitIds : \A i \in GraphicIds :
            AssetAvailable(i) =>
                (Placed(SegmentUnits[n], "graphic", i)
                    <=> (GTime(i) < SegmentUnits[n].end /\ GEnd(i) > SegmentUnits[n].start))

\* a plan list that is not sorted by timestamp; one segment holds a graphic
\* that starts before it, another leaves out a graphic that starts at or after
\* its end
C4_Witness ==
    /\ ClipsBuilt
    /\ \E a, b \in GraphicIds : a < b /\ GTime(a) > GTime(b)
    /\ \E n \in UnitIds : \E i \in GraphicIds :
          /\ Placed(SegmentUnits[n], "graphic", i)
          /\ GTime(i) < SegmentUnits[n].start
    /\ \E n \in UnitIds : \E i \in GraphicIds :
          /\ AssetAvailable(i)
          /\ GTime(i) >= SegmentUnits[n].end
          /\ ~Placed(SegmentUnits[n], "graphic", i)

\* the spans of the overlay a layer places
LayerStart(l) == IF l.kind = "graphic" THEN GTime(l.index) ELSE CStart(l.index)
LayerEnd(l) == IF l.kind = "graphic" THEN GEnd(l.index) ELSE CEnd(l.index)

HasLayer(u, kind, i, rel_start, duration) ==
    \E k \in LayersOf(u, kind, i) :
        u.layers[k].start = rel_start /\ u.layers[k].duration = duration

\* C5: every placement of an overlay [t, t') on a segment [s, e) has
\* relativeStart = max(0, t - s) and duration = min(t', e) - max(t, s); an
\* overlay gets one placement in each segment on which it is placed and none
\* twice; segments [0,5],[5,10] with a graphic at 4 of 3 s give (4, 1) and
\* (0, 2), and segment [5,10] with a caption [4,8] gives (0, 3).
C5_PlacementArithmetic ==
    ClipsBuilt =>
        /\ \A n \in UnitIds :
              LET u == SegmentUnits[n]
              IN  /\ \A k \in 1..Len(u.layers) :
                        LET l == u.layers[k]
                            d == FSub(LayerStart(l), u.start)
                        IN  /\ l.start = (IF d > 0 THEN d ELSE 0)
                            /\ l.duration = Overlap(LayerStart(l), LayerEnd(l), u)
                  /\ \A i \in GraphicIds : Cardinality(LayersOf(u, "graphic", i)) <= 1
                  /\ \A j \in CaptionIds : Cardinality(LayersOf(u, "caption", j)) <= 1
                  /\ \A i \in GraphicIds :
                        (AssetAvailable(i) /\ Overlap(GTime(i), GEnd(i), u) > 0)
                            => Placed(u, "graphic", i)
        /\ \A n \in UnitIds : \A i \in GraphicIds :
              (AssetAvailable(i) /\ PlanGraphics[i + 1] = Gfx(80, 60)) =>
                  /\ (SegmentUnits[n].start = 0 /\ SegmentUnits[n].end = 100)
                        => HasLayer(SegmentUnits[n], "graphic", i, 80, 20)
                  /\ (SegmentUnits[n].start = 100 /\ SegmentUnits[n].end = 200)
                        => HasLayer(SegmentUnits[n], "graphic", i, 0, 40)
        /\ \A n \in UnitIds : \A j \in CaptionIds :
              (textclip_ok /\ PlanCaptions[j + 1] = Cap(80, 160, "hi")
                 /\ SegmentUnits[n].start = 100 /\ SegmentUnits[n].end = 200)
                  => HasLayer(SegmentUnits[n], "caption", j, 0, 60)

\* the scenarios of the claim: the graphic is split over both segments, and
\* the caption that starts before its segment is placed at 0
C5_Witness ==
    /\ ClipsBuilt
    /\ Len(SegmentUnits) = 2
    /\ SegmentUnits[1].start = 0 /\ SegmentUnits[1].end = 100
    /\ SegmentUnits[2].start = 100 /\ SegmentUnits[2].end = 200
    /\ \E i \in GraphicIds :
          /\ HasLayer(SegmentUnits[1], "graphic", i, 80, 20)
          /\ HasLayer(SegmentUnits[2], "graphic", i, 0, 40)
    /\ \E j \in CaptionIds : HasLayer(SegmentUnits[2], "caption", j, 0, 60)

\* the durations of all the placements of overlay (kind, i), over all segments
PlacedTotal(kind, i) ==
    SumSeq([n \in UnitIds |->
              SumSeq([k \in 1..Len(SegmentUnits[n].layers) |->
                        IF k \in LayersOf(SegmentUnits[n], kind, i)
                        THEN SegmentUnits[n].layers[k].duration ELSE 0])])

\* the length of the part of [t, tEnd) that lies in some kept segment
UnionOverlap(t, tEnd) ==
    Cardinality({x \in t..(tEnd - 1) :
                    \E n \in UnitIds : SegmentUnits[n].start <= x /\ x < SegmentUnits[n].end})

\* the overlaps of [t, tEnd) with each kept segment, added up over the
\* segments whose overlap exceeds `least`
PerSegmentOverlap(t, tEnd, least) ==
    SumSeq([n \in UnitIds |->
              IF Overlap(t, tEnd, SegmentUnits[n]) > least
              THEN Overlap(t, tEnd, SegmentUnits[n]) ELSE 0])

\* C6 as stated: for every overlay event with eventEnd > eventStart the
\* durations of its placements add up to the overlap of [eventStart, eventEnd)
\* with the union of the kept segments.
C6_CoverageOfUnion ==
    ClipsBuilt =>
        /\ \A i \in GraphicIds :
              (AssetAvailable(i) /\ GEnd(i) > GTime(i))
                  => PlacedTotal("graphic", i) = UnionOverlap(GTime(i), GEnd(i))
        /\ \A j \in CaptionIds :
              (textclip_ok /\ CText(j) # "" /\ CEnd(j) > CStart(j))
                  => PlacedTotal("caption", j) = UnionOverlap(CStart(j), CEnd(j))

\* C6 as amended: for every overlay event with eventEnd > eventStart the
\* durations of its placements add up to the sum, over the kept segments, of
\* the overlap min(eventEnd, e) - max(eventStart, s) of the event with that
\* segment, counting a segment when that overlap is > 0 for a graphic and
\* > 0.5 s for a caption (an overlap lying in two overlapping segments counts
\* twice).
C6_CoveragePerSegment ==
    ClipsBuilt =>
        /\ \A i \in GraphicIds :
              (AssetAvailable(i) /\ GEnd(i) > GTime(i))
                  => PlacedTotal("graphic", i) = PerSegmentOverlap(GTime(i), GEnd(i), 0)
        /\ \A j \in CaptionIds :
              (textclip_ok /\ CText(j) # "" /\ CEnd(j) > CStart(j))
                  => PlacedTotal("caption", j)
                        = PerSegmentOverlap(CStart(j), CEnd(j), MinCaptionDuration)

\* two kept segments that overlap each other, and a graphic placed on both
C6_Witness ==
    /\ ClipsBuilt
    /\ Len(SegmentUnits) = 2
    /\ SegmentUnits[2].start < SegmentUnits[1].end
    /\ \E i \in GraphicIds :
          /\ Placed(SegmentUnits[1], "graphic", i)
          /\ Placed(SegmentUnits[2], "graphic", i)
          /\ PlacedTotal("graphic", i) > UnionOverlap(GTime(i), GEnd(i))

\* C7 as stated: every placement on a segment of length L = end - start has
\* relativeStart >= 0, duration > 0 and relativeStart + duration <= L.
C7_NoOutOfBoundsPlacement ==
    ClipsBuilt =>
        \A n \in UnitIds : \A k \in 1..Len(SegmentUnits[n].layers) :
            LET l == SegmentUnits[n].layers[k]
            IN  /\ l.start >= 0
                /\ l.duration > 0
                /\ l.start + l.duration <= SegmentUnits[n].duration

\* C8: with the asset available a graphic is placed on a segment iff its
\* overlap with the segment is > 0; a caption with text is placed (when the
\* text clip can be built) iff its overlap is > 0.5 s, and never when it is
\* 0.5 s or less or the text is empty.
C8_EmissionThresholds ==
    ClipsBuilt =>
        \A n \in UnitIds :
            LET u == SegmentUnits[n]
            IN  /\ \A i \in GraphicIds :
                      AssetAvailable(i) =>
                          (Placed(u, "graphic", i) <=> Overlap(GTime(i), GEnd(i), u) > 0)
                /\ \A j \in CaptionIds :
                      /\ (textclip_ok /\ CText(j) # "") =>
                            (Placed(u, "caption", j)
                                <=> Overlap(CStart(j), CEnd(j), u) > MinCaptionDuration)
                      /\ Overlap(CStart(j), CEnd(j), u) <= MinCaptionDuration
                            => ~Placed(u, "caption", j)
                      /\ CText(j) = "" => ~Placed(u, "caption", j)

\* a caption that overlaps a segment by exactly 0.5 s is left out of it, and a
\* caption that overlaps one by 0.55 s is placed
C8_Witness ==
    /\ ClipsBuilt
    /\ \E n \in UnitIds : \E j \in CaptionIds :
          /\ CText(j) # ""
          /\ Overlap(CStart(j), CEnd(j), SegmentUnits[n]) = MinCaptionDuration
          /\ ~Placed(SegmentUnits[n], "caption", j)
    /\ \E n \in UnitIds : \E j \in CaptionIds :
          /\ Overlap(CStart(j), CEnd(j), SegmentUnits[n]) = MinCaptionDuration + 1
          /\ Placed(SegmentUnits[n], "caption", j)

\* graphic i has no entry in graphic_paths, or its file does not exist
AssetMissing(i) == i \notin DOMAIN graphic_paths \/ graphic_paths[i] = "nofile"

RelStart(t, u) == IF FSub(t, u.start) > 0 THEN FSub(t, u.start) ELSE 0

\* the layers of segment u for the plan without the graphics that have no
\* usable asset
LayersWithoutMissing(u) ==
    {Layer("graphic", i, RelStart(GTime(i), u), Overlap(GTime(i), GEnd(i), u)) :
        i \in {x \in GraphicIds : AssetAvailable(x) /\ Overlap(GTime(x), GEnd(x), u) > 0}}
    \cup
    {Layer("caption", j, RelStart(CStart(j), u), Overlap(CStart(j), CEnd(j), u)) :
        j \in {x \in CaptionIds :
                 /\ textclip_ok
                 /\ CText(x) # ""
                 /\ Overlap(CStart(x), CEnd(x), u) > MinCaptionDuration}}

\* C9: a graphic whose index has no entry in graphic_paths, or whose file
\* does not exist, is placed on no segment and raises nothing; the segments
\* and the placements of the other graphics and of the captions are those of
\* the plan without it, and the call goes on to render.
C9_MissingAssetSkipped ==
    /\ ClipsBuilt =>
        /\ Len(SegmentUnits) = Cardinality(Survivors(KeepList))
        /\ \A n \in UnitIds :
              LET u == SegmentUnits[n]
              IN  /\ \A i \in GraphicIds : AssetMissing(i) => ~Placed(u, "graphic", i)
                  /\ {u.layers[k] : k \in 1..Len(u.layers)} = LayersWithoutMissing(u)
                  /\ Len(u.layers) = Cardinality(LayersWithoutMissing(u))
    /\ result = "exception" => \E k \in 1..Len(KeepList) : "start" \notin DOMAIN KeepList[k]
    /\ (pc = "assemble" /\ Survivors(KeepList) # {}) => ENABLED AddTitleCards

\* a graphic without asset overlaps a segment on which another graphic and a
\* caption are placed, and the call has reached the render
C9_Witness ==
    /\ pc = "render"
    /\ \E n \in UnitIds : \E i, j \in GraphicIds :
          /\ AssetMissing(i)
          /\ Overlap(GTime(i), GEnd(i), SegmentUnits[n]) > 0
          /\ Placed(SegmentUnits[n], "graphic", j)
          /\ \E c \in CaptionIds : Placed(SegmentUnits[n], "caption", c)

(* --------------------------- transitions: C10 -------------------------- *)
\* lines 253-263 have run
CrossfadePlanned == pc = "render" \/ (pc = "done" /\ clips # <<>>)
CrossfadeApplied == CrossfadePlanned /\ crossfade > 0 /\ Len(clips) > 1

\* the minimum duration d over the units handed to the concatenation
IsLeastDuration(d) ==
    /\ \E k \in 1..Len(clips) : clips[k].duration = d
    /\ \A k \in 1..Len(clips) : clips[k].duration >= d

\* C10 as amended: for a requested crossfade c > 0 and minimum unit duration
\* d the applied crossfade equals min(c, max(0, d - 0.1)): it is min(c, d - 0.1)
\* when d >= 0.1 s, and 0 when d < 0.1 s; it is never negative (two 2.0 s
\* segments with c = 5.0 give 1.9).
C10_CrossfadeCappedAtFloor ==
    CrossfadeApplied =>
        /\ \A d \in {clips[k].duration : k \in 1..Len(clips)} :
              IsLeastDuration(d) =>
                  actual_crossfade =
                      (IF FSub(d, CrossfadeMargin) < 0 THEN 0
                       ELSE IF crossfade < FSub(d, CrossfadeMargin) THEN crossfade
                       ELSE FSub(d, CrossfadeMargin))
        /\ actual_crossfade >= 0
        /\ (crossfade = 100 /\ \A k \in 1..Len(clips) : clips[k].duration = 40)
              => actual_crossfade = 38

\* C10 as stated: the applied crossfade equals min(c, d - 0.1) and is never
\* negative.
C10_CrossfadeCapped ==
    CrossfadeApplied =>
        /\ \A d \in {clips[k].duration : k \in 1..Len(clips)} :
              IsLeastDuration(d) =>
                  actual_crossfade =
                      (IF crossfade < FSub(d, CrossfadeMargin) THEN crossfade
                       ELSE FSub(d, CrossfadeMargin))
        /\ actual_crossfade >= 0

\* the test's scenario: two segments of 2.0 s and a requested crossfade of 5.0 s
C10_Witness ==
    /\ CrossfadeApplied
    /\ crossfade = 100
    /\ Len(clips) = 2
    /\ clips[1].duration = 40 /\ clips[2].duration = 40
    /\ actual_crossfade = 38
    /\ clips[2].crossfadein = 38

(* ------------------------ transitions: C11 to C13 ----------------------- *)
\* min(requested, max(0, d - 0.1)) for the least duration d among the units cs
CapFor(cs) ==
    LET d == CHOOSE x \in {cs[k].duration : k \in 1..Len(cs)} :
                 \A k \in 1..Len(cs) : cs[k].duration >= x
    IN  IF FSub(d, CrossfadeMargin) < 0 THEN 0
        ELSE IF crossfade < FSub(d, CrossfadeMargin) THEN crossfade
        ELSE FSub(d, CrossfadeMargin)

\* one cap for the render, on every unit after the first, and as the padding
UniformCrossfade(cap) ==
    /\ actual_crossfade = cap
    /\ \A k \in 2..Len(clips) : clips[k].crossfadein = cap
    /\ padding = 0 - cap

\* C11 as amended: the crossfade cap is computed once per render from the
\* global minimum over the durations of all the units handed to the
\* concatenation, title cards included; every adjacent pair of units receives
\* that same capped duration, and the units are concatenated with negative
\* padding equal to it (requested 1.0 on two 5 s segments gives padding -1.0).
C11_CapFromAllUnits ==
    CrossfadeApplied =>
        /\ UniformCrossfade(CapFor(clips))
        /\ (crossfade = 20 /\ \A k \in 1..Len(clips) : clips[k].duration = 100)
              => padding = 0 - 20

\* C11 as stated: the cap is computed from the global minimum over the
\* segment durations; every adjacent pair receives it and the padding is its
\* negation.
C11_CapFromSegmentDurations ==
    CrossfadeApplied => UniformCrossfade(CapFor(SegmentUnits))

\* the test's scenario: 1.0 s requested on two segments of 5 s
C11_Witness ==
    /\ CrossfadeApplied
    /\ crossfade = 20
    /\ Len(clips) = 2
    /\ \A k \in 1..2 : IsSegment(clips[k]) /\ clips[k].duration = 100
    /\ clips[2].crossfadein = 20
    /\ padding = 0 - 20

\* C12 as amended: when a crossfade is applied, every unit but the first is
\* faded in at its head by the capped amount, the first unit is not faded in,
\* and no unit is faded out at its tail.
C12_FadeInOnly ==
    CrossfadeApplied =>
        \A k \in 1..Len(clips) :
            /\ clips[k].crossfadein = (IF k > 1 THEN actual_crossfade ELSE 0)
            /\ clips[k].crossfadeout = 0

\* C12 as stated: every interior unit is faded in at its head and faded out
\* at its tail by the capped amount, the first unit is only faded out, the
\* last unit is only faded in.
C12_SymmetricFades ==
    CrossfadeApplied =>
        \A k \in 1..Len(clips) :
            /\ clips[k].crossfadein = (IF k > 1 THEN actual_crossfade ELSE 0)
            /\ clips[k].crossfadeout = (IF k < Len(clips) THEN actual_crossfade ELSE 0)

\* three units, so one of them is interior, and a crossfade that is not zero
C12_Witness ==
    /\ CrossfadeApplied
    /\ Len(clips) = 3
    /\ actual_crossfade > 0
    /\ clips[2].crossfadein = actual_crossfade
    /\ clips[3].crossfadein = actual_crossfade

NothingFaded ==
    /\ padding = 0
    /\ actual_crossfade = 0
    /\ \A k \in 1..Len(clips) : clips[k].crossfadein = 0 /\ clips[k].crossfadeout = 0

\* C13 as amended: when the requested crossfade is 0 or fewer than two units
\* are handed to the concatenation (N counts the segment units and the title
\* cards), no unit is faded and the units are concatenated back-to-back with
\* padding 0.
C13_NoTransitionBelowTwoUnits ==
    (CrossfadePlanned /\ (crossfade = 0 \/ Len(clips) < 2)) => NothingFaded

\* C13 as stated: N counts the segment units, before the title cards.
C13_NoTransitionBelowTwoSegments ==
    (CrossfadePlanned /\ (crossfade = 0 \/ Len(SegmentUnits) < 2)) => NothingFaded

\* a crossfade is requested and the only unit is one segment
C13_Witness ==
    /\ CrossfadePlanned
    /\ crossfade > 0
    /\ Len(clips) = 1
    /\ IsSegment(clips[1])
    /\ padding = 0

(* ------------------------- the audio step: C14 to C17 ------------------- *)
\* the concatenation succeeded, so lines 268-302 have run
AudioStepDone == pc = "done" /\ final.built

\* a music path is given, a file is there and AudioFileClip reads it
MusicUsed == music # "" /\ music_file.state = "file"

\* the outcome of the audio table for a source with or without sound and
\* music used or not
TableOutcome(original, with_music) ==
    IF original THEN (IF with_music THEN "mixed" ELSE "original")
                ELSE (IF with_music THEN "music" ELSE "none")

\* C14: for each of the four combinations (original audio present or absent)
\* x (music used or not) the audio step yields the one outcome of the table
\* and raises nothing: absent/no -> silence, present/no -> the original passed
\* through, absent/yes -> the music only, present/yes -> the original mixed
\* with the music; the mixing node is never built when the original audio is
\* absent.
C14_AudioTableTotal ==
    AudioStepDone =>
        /\ final.audio.kind = TableOutcome(video_audio, MusicUsed)
        /\ result \in {"output_path", "None"}
        /\ (final.audio.kind \in {"music", "mixed"}) = (final.audio.music # NoTrack)
        /\ ~video_audio => final.audio.kind # "mixed"

\* a silent video with music shorter than the result: the looped music alone
C14_Witness ==
    /\ AudioStepDone
    /\ ~video_audio
    /\ MusicUsed
    /\ music_file.duration < final.duration
    /\ final.audio.kind = "music"
    /\ final.audio.music.fit = "loop"
    /\ result = "output_path"

\* C15: whenever music is used, the music track lasts exactly the final video
\* duration: it is looped to finalDuration if music.duration < finalDuration,
\* and otherwise trimmed to [0, finalDuration] from its start.
C15_MusicFitsFinalDuration ==
    (AudioStepDone /\ MusicUsed) =>
        LET track == final.audio.music
        IN  /\ track.source = music_file.duration
            /\ track.duration = final.duration
            /\ track.start = 0
            /\ track.fit = (IF music_file.duration < final.duration THEN "loop"
                            ELSE "trim")

\* music longer than the result is cut to it
C15_Witness ==
    /\ AudioStepDone
    /\ MusicUsed
    /\ music_file.duration > final.duration
    /\ final.audio.music.fit = "trim"
    /\ final.audio.music.duration = final.duration

\* C16: the music-volume gain (music_volume, default 0.1) is applied exactly
\* once to the music track and never to the original audio track, in the
\* music-only and in the mixed outcome.
C16_GainOnMusicOnly ==
    AudioStepDone =>
        /\ final.audio.original_gains = <<>>
        /\ MusicUsed => final.audio.music.gains = <<music_volume>>

\* the default gain on the music of a mix
C16_Witness ==
    /\ AudioStepDone
    /\ MusicUsed
    /\ final.audio.kind = "mixed"
    /\ music_volume = DefaultMusicVolume
    /\ final.audio.music.gains = <<DefaultMusicVolume>>

\* C17: whenever background music is added, a fade-in and a fade-out envelope
\* of 2.0 s are applied to the music track, whether it was looped or trimmed.
C17_MusicFadeEnvelope ==
    (AudioStepDone /\ MusicUsed) =>
        /\ final.audio.music.fadein = MusicFadeDuration
        /\ final.audio.music.fadeout = MusicFadeDuration

(* ----------------------- assembly and filter: C18, C19 ------------------ *)
\* a unit as the clip loop built it, before any fade
Unfaded(c) == [c EXCEPT !.crossfadein = 0, !.crossfadeout = 0]

IsCard(c, kind) ==
    /\ c.kind = kind
    /\ c.duration = TitleCardDuration
    /\ c.size = "video.size"
    /\ c.layers = <<>>

\* the units are: an intro card iff has_intro, the segment units in the order
\* of the clip loop, an outro card iff has_outro
UnitsInOrder(has_intro, has_outro) ==
    LET units == SegmentClips(Len(segments), textclip_ok)
        lead == IF has_intro THEN 1 ELSE 0
        tail == IF has_outro THEN 1 ELSE 0
    IN  /\ Len(clips) = lead + Len(units) + tail
        /\ has_intro => IsCard(clips[1], "intro")
        /\ has_outro => IsCard(clips[Len(clips)], "outro")
        /\ \A k \in 1..Len(units) :
              /\ lead + k <= Len(clips)
              /\ Unfaded(clips[lead + k]) = units[k]

\* C18: the sequence of units handed to concatenation is, in order: the intro
\* title card first iff intro text is given, then the segment units in clipper
\* order, then the outro title card last iff outro text is given; each title
\* card has duration 3.0 s and the main video's size (one segment with both
\* texts gives exactly 3 units: intro, segment, outro). A card that
\* _create_title_card cannot build (it returns None, lines 34-36) is left out.
C18_UnitsWithCreatedCards ==
    CrossfadePlanned =>
        /\ UnitsInOrder(intro_text # "" /\ card_ok.intro, outro_text # "" /\ card_ok.outro)
        /\ (Len(SegmentUnits) = 1 /\ intro_text # "" /\ outro_text # ""
            /\ card_ok.intro /\ card_ok.outro)
              => /\ Len(clips) = 3
                 /\ clips[1].kind = "intro"
                 /\ clips[2].kind = "segment"
                 /\ clips[3].kind = "outro"

\* the test's scenario: one segment between the two cards
C18_Witness ==
    /\ pc = "render"
    /\ intro_text # "" /\ outro_text # ""
    /\ Len(clips) = 3
    /\ IsCard(clips[1], "intro")
    /\ IsSegment(clips[2])
    /\ IsCard(clips[3], "outro")

\* the effect each filter name stands for
FilterEffect(name) ==
    CASE name = "black_white" -> "blackwhite"
      [] name = "invert_colors" -> "invert_colors"
      [] name = "painting" -> "painting"
      [] name = "rotate_90" -> "rotate"
      [] OTHER -> name

\* C19: a requested visual filter is applied exactly once, to the fully
\* concatenated result, and never to an individual segment; a requested
\* filter such as 'rotate_90' results in that one application on the final
\* clip.
C19_FilterAppliedOnce ==
    AudioStepDone =>
        final.filters = (IF visual_filter = "" THEN <<>>
                         ELSE <<FilterEffect(visual_filter)>>)

(* --------------------------- idempotence: C20 --------------------------- *)
\* the second call has returned
SecondCallDone == call = 2 /\ pc = "done"

\* in both calls the video loaded and the same clips could be built
SameEnvironment ==
    /\ segments # <<>> /\ first.segments # <<>>
    /\ textclip_ok = first.textclip_ok
    /\ card_ok = first.card_ok
    /\ final.built = first.final.built

\* C20: calling Editor.edit twice in succession with the same plan object,
\* asset map and configuration produces an identical render graph both times:
\* same segment count and order, same per-segment overlay lists with the same
\* relative starts and durations, same crossfade and same audio outcome.
C20_Idempotent ==
    (SecondCallDone /\ SameEnvironment) =>
        /\ segments = first.segments
        /\ clips = first.clips
        /\ actual_crossfade = first.actual_crossfade
        /\ padding = first.padding
        /\ final = first.final
        /\ (result = "exception") = (first.result = "exception")

\* the first call has reordered the caller's list, and both calls built two
\* segments with overlays, a crossfade and music
C20_Witness ==
    /\ SecondCallDone
    /\ final.built /\ first.final.built
    /\ first.plan # analysis_data
    /\ Len(SegmentUnits) = 2
    /\ \E k \in 1..Len(clips) : Len(clips[k].layers) > 1
    /\ actual_crossfade > 0
    /\ final.audio.kind = "mixed"
    /\ clips = first.clips

(* ------------------------ failure of the backend: C21 ------------------- *)
\* C21: if the rendering backend fails (the concatenation or the file write
\* raises), Editor.edit returns None and never the output path, and it makes
\* no second render attempt; it returns output_path only after the write
\* completed without error.
C21_BackendFailureReturnsNone ==
    /\ Len(render_log) <= 1
    /\ render_log # <<>> => pc = "done"
    /\ result = "output_path" => render_log = <<"written">>
    /\ \A k \in 1..Len(render_log) :
          render_log[k] \in {"write_failed", "concatenate_failed"} => result = "None"

\* write_videofile raised after the clip was assembled
C21_Witness ==
    /\ pc = "done"
    /\ render_log = <<"write_failed">>
    /\ final.built
    /\ result = "None"

(* ------------------- malformed plans and ownership: C22, C29 ------------ *)
\* C22: for any plan whose arrays or entries have missing fields (absent
\* segments/captions/graphics arrays; a segment without start or end; a caption
\* without start, end or text; a graphic without timestamp or duration),
\* Editor.edit substitutes a default for the missing field and completes the
\* composition without raising an exception.
C22_MalformedPlanNeverRaises == result # "exception"

\* C29: Editor.edit leaves the caller-owned inputs unchanged: at any point of
\* a call and after it the plan's segments, captions and graphics lists have
\* the same elements in the same order as when edit() was called.
C29_PlanUnchanged == analysis_data = plan_at_call

(* ------------------------- asset identity: C30 -------------------------- *)
GraphicLayersOf(u) ==
    SelectSeq(u.layers, LAMBDA l : l.kind = "graphic")

\* C30: for any order of timestamps in the plan's graphics list, every graphic
\* placement uses the asset graphic_paths[i] where i is the graphic's index in
\* the original, unsorted plan list: the placement with asset i has the
\* relative start and duration of plan entry i, and asset i is there; the
\* graphics of a segment are layered by timestamp, those with equal timestamps
\* in plan order.
C30_AssetByPlanIndex ==
    ClipsBuilt =>
        \A n \in UnitIds :
            LET u == SegmentUnits[n]
                gl == GraphicLayersOf(u)
            IN  /\ \A k \in 1..Len(gl) :
                      /\ gl[k].index \in GraphicIds
                      /\ AssetAvailable(gl[k].index)
                      /\ gl[k].start = Max(0, FSub(GTime(gl[k].index), u.start))
                      /\ gl[k].duration = Overlap(GTime(gl[k].index), GEnd(gl[k].index), u)
                /\ \A k \in 1..(Len(gl) - 1) :
                      \/ GTime(gl[k].index) < GTime(gl[k + 1].index)
                      \/ /\ GTime(gl[k].index) = GTime(gl[k + 1].index)
                         /\ gl[k].index < gl[k + 1].index

\* a plan whose second graphic comes first in time: its layer is the lower
\* one and carries plan index 1
C30_Witness ==
    /\ ClipsBuilt
    /\ Len(PlanGraphics) = 2
    /\ GTime(1) < GTime(0)
    /\ \E n \in UnitIds :
          LET gl == GraphicLayersOf(SegmentUnits[n])
          IN  /\ Len(gl) = 2
              /\ gl[1].index = 1
              /\ gl[2].index = 0
              /\ gl[1].start # gl[2].start

(* ================== the claims about Generator.generate ================= *)
GenerateDone == generation.pc = "done"
Status(k) == generation.responses[k].status
LastStatus == Status(Len(generation.responses))

\* a response that is not the answer to the last attempt allowed
Retryable(k) == k < max_retries

\* C24: Generator.generate retries a request that gets HTTP 500, makes at
\* most 5 POST attempts in total and always terminates: a 500 followed by a
\* 200 succeeds on the second attempt, and when every attempt gets 500 it
\* makes exactly 5 attempts and returns None.
C24_RetryOn500 ==
    /\ generation.posts <= max_retries
    /\ \A k \in 1..Len(generation.responses) :
          (Status(k) = "500" /\ Retryable(k)) =>
              (k < Len(generation.responses) \/ generation.pc = "post")
    /\ (GenerateDone /\ LastStatus = "500") =>
          /\ generation.posts = max_retries
          /\ generation.result = "None"

\* C25: a POST that raises RequestException is retried after a sleep and does
\* not end the call: k < 5 consecutive RequestExceptions followed by a 200
\* give k + 1 POSTs, k sleeps and a path.
C25_RetryOnRequestException ==
    LET n == Len(generation.responses)
    IN  /\ \A k \in 1..n :
              (Status(k) = "RequestException" /\ Retryable(k)) =>
                  (k < n \/ generation.pc = "post")
        /\ (GenerateDone /\ LastStatus = "RequestException") =>
              generation.posts = max_retries
        /\ (GenerateDone /\ \A k \in 1..n : Status(k) = "RequestException") =>
              Len(generation.sleeps) >= n - 1

\* C26: an HTTP 503 response causes a sleep (for the response's
\* estimated_time, or the default 20 s when the body has none or is not JSON)
\* followed by a retry: a 503 followed by a 200 gives exactly 2 POSTs and a
\* path, and when every attempt gets 503, also with a non-JSON body, the call
\* returns None after the retries without raising.
C26_SleepAndRetryOn503 ==
    LET g == generation
        n == Len(g.responses)
        waits == SelectSeq(g.responses, LAMBDA r : r.status = "503")
    IN  /\ g.posts = n
        /\ Len(g.sleeps) = Len(waits)
        /\ \A k \in 1..Len(waits) :
              g.sleeps[k] = (IF waits[k].body \in {"no key", "not JSON"} THEN 20
                             ELSE waits[k].estimated_time)
        /\ \A k \in 1..n : (Status(k) = "503" /\ Retryable(k)) =>
              (k < n \/ g.pc = "post")
        /\ (GenerateDone /\ n = 2 /\ Status(1) = "503"
            /\ g.responses[2] = Response("200", "image", "image", 0, 0))
              => g.posts = 2 /\ g.result = "path"
        /\ (GenerateDone /\ \A k \in 1..n : Status(k) = "503")
              => g.posts = max_retries /\ g.result = "None"
        /\ g.result # "exception"

\* five answers of 503, one of them not JSON, and None at the end
C26_Witness ==
    /\ GenerateDone
    /\ Len(generation.responses) = max_retries
    /\ \A k \in 1..max_retries : Status(k) = "503"
    /\ \E k \in 1..max_retries : generation.responses[k].body = "not JSON"
    /\ Len(generation.sleeps) = max_retries
    /\ generation.result = "None"

\* C27: an HTTP 429 response causes a sleep of the number of seconds given by
\* the response's Retry-After header and then a retry: a 429 with Retry-After
\* 1 followed by a 200 gives sleep(1) and exactly 2 POST attempts.
C27_SleepAndRetryOn429 ==
    \A k \in 1..Len(generation.responses) :
        (Status(k) = "429" /\ Retryable(k)) =>
            /\ k <= Len(generation.sleeps)
            /\ generation.sleeps[k] = generation.responses[k].retry_after
            /\ (k < Len(generation.responses) \/ generation.pc = "post")

(* ==================== the claim about main: C23 ========================= *)
HasPrompt(i) ==
    /\ i < Len(graphics_phase.graphics_reqs)
    /\ "prompt" \in DOMAIN graphics_phase.graphics_reqs[i + 1]
    /\ graphics_phase.graphics_reqs[i + 1].prompt # ""

RequestIds == 0..(Len(graphics_phase.graphics_reqs) - 1)

\* C23: after the parallel graphics-generation phase in main, for every
\* completion order and interleaving of the worker tasks, graphic_paths maps
\* plan index i to a path iff graphic i had a prompt and its generation
\* returned a path; a generation that returns None or raises leaves index i
\* absent, does not change any other index's entry, and does not abort the
\* pipeline.
C23_PathsOfSuccessfulGenerations ==
    LET ph == graphics_phase
    IN  /\ ph.pc # "aborted"
        /\ \A i \in DOMAIN ph.graphic_paths :
              /\ i \in RequestIds /\ HasPrompt(i)
              /\ ph.futures[i] = "path"
              /\ ph.graphic_paths[i] = PathOf(i)
        /\ ph.pc = "edit" =>
              /\ DOMAIN ph.futures = {i \in RequestIds : HasPrompt(i)}
              /\ DOMAIN ph.graphic_paths =
                    {i \in RequestIds : HasPrompt(i) /\ ph.futures[i] = "path"}

\* three generations: the first raised, the second returned None, the third
\* a path, and edit is called with the third alone
C23_Witness ==
    /\ graphics_phase.pc = "edit"
    /\ DOMAIN graphics_phase.futures = {0, 1, 2}
    /\ graphics_phase.futures[0] = "raised"
    /\ graphics_phase.futures[1] = "None"
    /\ graphics_phase.futures[2] = "path"
    /\ DOMAIN graphics_phase.graphic_paths = {2}

(* ================ the claim about Analyzer.analyze: C28 ================= *)
Answered == analysis.pc \in {"done", "raised"}

\* the text inside the first ```json fence: up to the next fence or to the end
InJsonFence(t) ==
    LET i == CHOOSE i \in 1..Len(t) :
                 /\ i < Len(t) /\ t[i] = "fence" /\ t[i + 1] = "json"
                 /\ \A k \in 1..(i - 1) : ~(t[k] = "fence" /\ t[k + 1] = "json")
        closing == {j \in (i + 2)..Len(t) : t[j] = "fence"}
        j == IF closing = {} THEN Len(t) + 1
             ELSE CHOOSE j \in closing : \A k \in closing : j <= k
    IN  SubSeq(t, i + 2, j - 1)

\* the text between the first two fences, or after the only one
InPlainFence(t) ==
    LET fences == {i \in 1..Len(t) : t[i] = "fence"}
        i == CHOOSE i \in fences : \A k \in fences : i <= k
        later == fences \ {i}
        j == IF later = {} THEN Len(t) + 1
             ELSE CHOOSE j \in later : \A k \in later : j <= k
    IN  SubSeq(t, i + 1, j - 1)

\* the text from the first { to the last }
InBraces(t) ==
    LET opening == {i \in 1..Len(t) : t[i] = "{"}
        closing == {i \in 1..Len(t) : t[i] = "}"}
    IN  IF opening = {} \/ closing = {} THEN <<>>
        ELSE SubSeq(t, CHOOSE i \in opening : \A k \in opening : i <= k,
                       CHOOSE j \in closing : \A k \in closing : j >= k)

HasJsonFence(t) == \E i \in 1..(Len(t) - 1) : t[i] = "fence" /\ t[i + 1] = "json"
HasFence(t) == \E i \in 1..Len(t) : t[i] = "fence"

\* the texts the fallbacks look at, in the order they are tried: with a
\* ```json fence the plain fence is not tried
Candidates(t) ==
    <<t>> \o (IF HasJsonFence(t) THEN <<InJsonFence(t)>>
              ELSE IF HasFence(t) THEN <<InPlainFence(t)>> ELSE <<>>)
          \o <<InBraces(t)>>

CandidatesWithoutPlainFence(t) ==
    <<t>> \o (IF HasJsonFence(t) THEN <<InJsonFence(t)>> ELSE <<>>) \o <<InBraces(t)>>

FirstJSON(cands) ==
    IF \E k \in 1..Len(cands) : IsJSON(cands[k])
    THEN loads(cands[CHOOSE k \in 1..Len(cands) :
                        IsJSON(cands[k]) /\ \A h \in 1..(k - 1) : ~IsJSON(cands[h])])
    ELSE ReturnedNone

\* C28 (amended): Analyzer.analyze never raises on a model response: it
\* returns the parsed plan when the response text is JSON, or contains JSON
\* inside the first ```json fence, or (when there is no ```json fence) inside
\* the first plain ``` fence, or contains a JSON object between the first '{'
\* and the last '}', trying these in that order, and it returns None when none
\* of them yields valid JSON, the response is empty or the API call raises.
C28_FallbacksInOrder ==
    /\ analysis.result.tag \in {"running", "plan", "None"}
    /\ Answered => analysis.result.tag # "running"
    /\ analysis.pc = "raised" => analysis.result = ReturnedNone
    /\ analysis.pc = "done" =>
          analysis.result = FirstJSON(Candidates(analysis.result_text))

\* C28 as stated: the response text, the ```json fence and the braces are the
\* only fallbacks
C28_ThreeFallbacks ==
    /\ analysis.result.tag \in {"running", "plan", "None"}
    /\ analysis.pc = "done" =>
          analysis.result = FirstJSON(CandidatesWithoutPlainFence(analysis.result_text))

\* a ```json fence whose content is not JSON, and the braces after it give
\* the plan
C28_Witness ==
    /\ analysis.pc = "done"
    /\ HasJsonFence(analysis.result_text)
    /\ ~IsJSON(analysis.result_text)
    /\ ~IsJSON(InJsonFence(analysis.result_text))
    /\ analysis.result.tag = "plan"

====
